---- MODULE Spec2Model ----
(***************************************************************************)
(* Exact-composition blackjack core: the exact dealer distribution and the *)
(* stand / hit expectations of src/src/exact, the endpoints of              *)
(* src/src/app.py (game start and end, decision, counts application,        *)
(* insurance), the evaluator and the simulator's play_hand of               *)
(* src/src/sim_core.py, and choose_action of src/unit_harness.py.           *)
(*                                                                         *)
(* Probabilities and expectations of src/src/exact are exact rationals,    *)
(* written <<n, d>> with d > 0 in lowest terms.  The EVs of app.py are the *)
(* literal constants of its stub, written in thousandths (0.338 is 338).   *)
(***************************************************************************)
EXTENDS Integers, Sequences, FiniteSets, TLC

VARIABLES hand, total, soft,      \* a hand being folded card by card
          deck, call, ret,        \* src/src/exact: the deck, the last call, its result
          USE_RUST_CORE, HAVE_RUST, \* src/src/app.py: the backend flags set at import
          STORE, req, resp,       \* games, the last request, its response
          applied,                \* history: cards applied to each live game since its start
          _dp_cache,              \* src/src/sim_core.py: the module's DP cache
          sim,                    \* a BlackjackSimulator and the frame of its play_hand
          lru_cache,              \* src/src/exact/dealer_pmf.py: the lru_cache of _pmf_cached
          threads                 \* src/src/app.py: the workers running counts_apply

vars == <<hand, total, soft, deck, call, ret, USE_RUST_CORE, HAVE_RUST, STORE, req, resp,
          applied, _dp_cache, sim, lru_cache, threads>>

handVars == <<hand, total, soft>>
exactVars == <<deck, call, ret>>
appVars == <<USE_RUST_CORE, HAVE_RUST, STORE, req, resp, applied>>
procVars == <<sim, lru_cache, threads>>
simVars == <<_dp_cache, procVars>>

-----------------------------------------------------------------------------
(* Bounds *)

MaxHand == 3
MaxCards == 3
MaxGames == 1
MaxDecks == 1
MaxReqCards == 2

-----------------------------------------------------------------------------
(* Exact rational arithmetic *)

RECURSIVE Gcd(_, _)
Gcd(a, b) == IF b = 0 THEN a ELSE Gcd(b, a % b)

Abs(x) == IF x < 0 THEN -x ELSE x

Norm(n, d) ==
    LET g == Gcd(Abs(n), d) IN <<n \div g, d \div g>>

Zero == <<0, 1>>
One == <<1, 1>>
Frac(n, d) == Norm(n, d)
RAdd(x, y) == Norm(x[1] * y[2] + y[1] * x[2], x[2] * y[2])
RSub(x, y) == Norm(x[1] * y[2] - y[1] * x[2], x[2] * y[2])
RMul(x, y) == Norm(x[1] * y[1], x[2] * y[2])
RLeq(x, y) == x[1] * y[2] <= y[1] * x[2]

\* Sum of f[x] over the finite set S of integers, f[x] rational.
RECURSIVE RSum(_, _)
RSum(f, S) ==
    IF S = {} THEN Zero
    ELSE LET x == CHOOSE y \in S : \A z \in S : y <= z
         IN RAdd(f[x], RSum(f, S \ {x}))

-----------------------------------------------------------------------------
(* src/src/exact/deck.py *)

Ranks == 0 .. 9

HC_NONE == 0
HC_NOT_TEN == 1
HC_NOT_ACE == 2
HoleConstraints == {HC_NONE, HC_NOT_TEN, HC_NOT_ACE}

EmptyDeck == [r \in Ranks |-> 0]

\* What a call returns when it raises ValueError instead.
ValueError == << >>

\* A removal that hands the deck back as it is when the slot is empty.
remove_card_silent(d, idx) ==
    IF d[idx] <= 0 THEN d ELSE [d EXCEPT ![idx] = d[idx] - 1]

\* remove_card raises ValueError on an empty slot, and otherwise returns a
\* fresh tuple with the slot decremented.
remove_card(d, idx) ==
    IF d[idx] <= 0 THEN ValueError ELSE [d EXCEPT ![idx] = d[idx] - 1]

apply_hole_constraint_view(d, hole_c) ==
    IF hole_c = HC_NOT_TEN
    THEN (IF d[9] = 0 THEN d ELSE [d EXCEPT ![9] = 0])
    ELSE IF hole_c = HC_NOT_ACE
    THEN (IF d[0] = 0 THEN d ELSE [d EXCEPT ![0] = 0])
    ELSE d

RECURSIVE SumUpTo(_, _)
SumUpTo(d, r) == IF r < 0 THEN 0 ELSE d[r] + SumUpTo(d, r - 1)

\* deck_total with the ten slot left out of the sum.
deck_total_without_tens(d) == SumUpTo(d, 8)

deck_total(d) == SumUpTo(d, 9)

-----------------------------------------------------------------------------
(* src/src/exact/dealer_pmf.py *)

RANK_VAL == [r \in Ranks |-> IF r = 0 THEN 11 ELSE IF r = 9 THEN 10 ELSE r + 1]

_add_rank(t, s, r_idx) ==
    LET new_total == t + RANK_VAL[r_idx]
        new_soft == s \/ (r_idx = 0)
    IN IF new_total > 21 /\ new_soft
       THEN <<new_total - 10, FALSE>>
       ELSE <<new_total, new_soft>>

\* dealer_pmf_key is the tuple of its arguments: the cache of _pmf_cached is
\* keyed by all five, so the operator below is a function of exactly them.
dealer_pmf_key(t, s, d, h17, hole_c) == <<t, s, d, h17, hole_c>>

\* A PMF is the dict of the source: a function whose DOMAIN is the dict's keys.
RECURSIVE _pmf_cached(_)
_pmf_cached(key) ==
    LET t == key[1]
        s == key[2]
        d == key[3]
        h17 == key[4]
        hole_c == key[5]
    IN IF t >= 17 /\ t > 21 THEN (22 :> One)
       ELSE IF t >= 17 /\ ~(h17 /\ s /\ t = 17) THEN (t :> One)
       ELSE LET view == apply_hole_constraint_view(d, hole_c)
                remaining == deck_total(view)
            IN IF remaining = 0
               THEN ((IF t <= 21 THEN t ELSE 22) :> One)
               ELSE LET drawn == {r \in Ranks : view[r] # 0}
                        child == [r \in drawn |->
                                    LET n == _add_rank(t, s, r)
                                    IN _pmf_cached(dealer_pmf_key(n[1], n[2],
                                                   remove_card(d, r), h17, hole_c))]
                        keys == UNION {DOMAIN child[r] : r \in drawn}
                    IN [k \in keys |->
                          RSum([r \in drawn |->
                                  IF k \in DOMAIN child[r]
                                  THEN RMul(Frac(view[r], remaining), child[r][k])
                                  ELSE Zero], drawn)]

dealer_pmf(start_total, start_soft, d, h17, hole_constraint) ==
    _pmf_cached(dealer_pmf_key(start_total, start_soft, d, h17, hole_constraint))

-----------------------------------------------------------------------------
(* src/src/exact/ev.py *)

\* dict.get(k, 0.0)
PmfGet(pmf, k) == IF k \in DOMAIN pmf THEN pmf[k] ELSE Zero

stand_ev(player_total, player_soft, dealer_up_idx, deck_post_deal, h17, hole_c, wager) ==
    LET up_soft == (dealer_up_idx = 0)
        up_val == IF up_soft THEN 11
                  ELSE IF dealer_up_idx = 9 THEN 10 ELSE dealer_up_idx + 1
        pmf == dealer_pmf(up_val, up_soft, deck_post_deal, h17, hole_c)
        bust_p == PmfGet(pmf, 22)
        beaten == {t \in DOMAIN pmf :
                     17 <= t /\ t <= 21 /\ t < player_total /\ player_total <= 21}
        win == RAdd(bust_p, RSum(pmf, beaten))
        push == PmfGet(pmf, player_total)
        lose == RSub(RSub(One, win), push)
    IN RMul(wager, RSub(win, lose))

hit_then_stand_ev(player_total, player_soft, dealer_up_idx, d, h17, hole_c, wager) ==
    LET rem == SumUpTo(d, 9)
    IN IF rem = 0
       THEN stand_ev(player_total, player_soft, dealer_up_idx, d, h17, hole_c, wager)
       ELSE LET drawn == {r \in Ranks : d[r] # 0}
                term == [r \in drawn |->
                           LET v == RANK_VAL[r]
                               nt0 == player_total + v
                               ns0 == player_soft \/ (r = 0)
                               nt == IF nt0 > 21 /\ ns0 THEN nt0 - 10 ELSE nt0
                               ns == IF nt0 > 21 /\ ns0 THEN FALSE ELSE ns0
                               nd == remove_card(d, r)
                           IN RMul(Frac(d[r], rem),
                                   stand_ev(nt, ns, dealer_up_idx, nd, h17, hole_c, wager))]
            IN RSum(term, drawn)

-----------------------------------------------------------------------------
(* src/src/core_adapter.py *)

\* _RANKS: the rank symbol of each rank index
RankSym == [r \in Ranks |-> IF r = 0 THEN "A" ELSE IF r = 9 THEN "T"
                            ELSE <<"2", "3", "4", "5", "6", "7", "8", "9">>[r]]

\* peek_mode is "US" or "EU" here (upper-casing and the "US" default for an
\* empty mode do not arise).
_hole_constraint(peek_mode, up) ==
    IF peek_mode = "US" /\ up = "A" THEN HC_NOT_TEN
    ELSE IF peek_mode = "US" /\ up = "T" THEN HC_NOT_ACE
    ELSE HC_NONE

-----------------------------------------------------------------------------
(* Inputs *)

\* Player states: hard totals 4..31, soft totals 11..21.
PlayerStates ==
    {<<t, s>> \in (4 .. 31) \X BOOLEAN : s => (11 <= t /\ t <= 21)}

\* Every deck of exactly n cards.
RECURSIVE DecksOfSize(_)
DecksOfSize(n) ==
    IF n = 0 THEN {EmptyDeck}
    ELSE {[d EXCEPT ![r] = d[r] + 1] : d \in DecksOfSize(n - 1), r \in Ranks}

Decks == UNION {DecksOfSize(n) : n \in 0 .. MaxCards}

\* Dealer states: hard totals from a lone upcard up to a bust, soft totals
\* 11..21 (a hand with an Ace counted as 11).
DealerStates ==
    {<<t, s>> \in (2 .. 26) \X BOOLEAN : s => (11 <= t /\ t <= 21)}

\* The peek constraints an upcard can carry: NOT_TEN only after an Ace up was
\* cleared, NOT_ACE only after a ten up was cleared (US peek), NONE otherwise
\* and always under EU.
PeekConstraints(up) ==
    {_hole_constraint(peek_mode, RankSym[up]) : peek_mode \in {"US", "EU"}}

NoCall == [fn |-> "none"]
NoReq == [op |-> "none"]
NoResp == [status |-> 0]
NoSim == [pc |-> "none"]

-----------------------------------------------------------------------------
(* A hand folded card by card from (0, not soft) *)

InitHand ==
    /\ hand = <<>>
    /\ total = 0
    /\ soft = FALSE
    /\ deck = EmptyDeck
    /\ call = NoCall
    /\ ret = "none"
    /\ USE_RUST_CORE = FALSE
    /\ HAVE_RUST = FALSE
    /\ STORE = <<>>
    /\ req = NoReq
    /\ resp = NoResp
    /\ applied = <<>>
    /\ _dp_cache = <<>>
    /\ sim = NoSim
    /\ lru_cache = <<>>
    /\ threads = <<>>

AddCard(r) ==
    /\ Len(hand) < MaxHand
    /\ hand' = Append(hand, r)
    /\ total' = _add_rank(total, soft, r)[1]
    /\ soft' = _add_rank(total, soft, r)[2]
    /\ UNCHANGED <<exactVars, appVars, simVars>>

NextHand == \E r \in Ranks : AddCard(r)

SpecHand == InitHand /\ [][NextHand]_vars

-----------------------------------------------------------------------------
(* Calls of exact.dealer_pmf on every deck of at most MaxCards cards *)

InitPmf ==
    /\ hand = <<>>
    /\ total = 0
    /\ soft = FALSE
    /\ deck \in Decks
    /\ call = NoCall
    /\ ret = "none"
    /\ USE_RUST_CORE = FALSE
    /\ HAVE_RUST = FALSE
    /\ STORE = <<>>
    /\ req = NoReq
    /\ resp = NoResp
    /\ applied = <<>>
    /\ _dp_cache = <<>>
    /\ sim = NoSim
    /\ lru_cache = <<>>
    /\ threads = <<>>

CallDealerPmf(st, h17, hole_c) ==
    /\ call.fn = "none"
    /\ call' = [fn |-> "dealer_pmf", total |-> st[1], soft |-> st[2],
                h17 |-> h17, hole_c |-> hole_c]
    /\ ret' = dealer_pmf(st[1], st[2], deck, h17, hole_c)
    /\ UNCHANGED <<deck, handVars, appVars, simVars>>

NextPmf ==
    \E st \in DealerStates, h17 \in BOOLEAN, hole_c \in HoleConstraints :
        CallDealerPmf(st, h17, hole_c)

SpecPmf == InitPmf /\ [][NextPmf]_vars

-----------------------------------------------------------------------------
(* Calls of exact.ev.stand_ev and exact.ev.hit_then_stand_ev, wager 1 *)

InitEv == InitPmf

CallStandEv(pst, up, h17, hole_c) ==
    /\ call.fn = "none"
    /\ call' = [fn |-> "stand_ev", total |-> pst[1], soft |-> pst[2], up |-> up,
                h17 |-> h17, hole_c |-> hole_c]
    /\ ret' = stand_ev(pst[1], pst[2], up, deck, h17, hole_c, One)
    /\ UNCHANGED <<deck, handVars, appVars, simVars>>

CallHitThenStandEv(pst, up, h17, hole_c) ==
    /\ call.fn = "none"
    /\ pst[1] <= 21
    /\ call' = [fn |-> "hit_then_stand_ev", total |-> pst[1], soft |-> pst[2],
                up |-> up, h17 |-> h17, hole_c |-> hole_c]
    /\ ret' = hit_then_stand_ev(pst[1], pst[2], up, deck, h17, hole_c, One)
    /\ UNCHANGED <<deck, handVars, appVars, simVars>>

NextEv ==
    \E pst \in PlayerStates, up \in Ranks, h17 \in BOOLEAN :
      \E hole_c \in PeekConstraints(up) :
        \/ CallStandEv(pst, up, h17, hole_c)
        \/ CallHitThenStandEv(pst, up, h17, hole_c)

SpecEv == InitEv /\ [][NextEv]_vars

-----------------------------------------------------------------------------
(* Calls of deck.remove_card *)

\* remove_card(deck, idx): the caller's tuple is read, never written.
CallRemoveCard(idx) ==
    /\ call.fn = "none"
    /\ call' = [fn |-> "remove_card", deck |-> deck, idx |-> idx]
    /\ ret' = remove_card(deck, idx)
    /\ UNCHANGED <<deck, handVars, appVars, simVars>>

NextDeck == \E idx \in Ranks : CallRemoveCard(idx)

SpecDeck == InitPmf /\ [][NextDeck]_vars

-----------------------------------------------------------------------------
(* src/src/app.py: the decision endpoint over the in-memory game store *)

\* Rank: the ten symbols a request may carry.
Rank == {RankSym[r] : r \in Ranks}

\* Optional[float]: None is the empty tuple, a number x is <<x>>.
None == << >>
Some(x) == <<x>>

_fresh_counts(nd) == [r \in Rank |-> IF r = "T" THEN 16 * nd ELSE 4 * nd]

_remaining(counts) == SumUpTo([r \in Ranks |-> counts[RankSym[r]]], 9)

_p_bj(counts, up) ==
    LET tot == _remaining(counts)
    IN IF tot <= 0 THEN Zero
       ELSE IF up = "A" THEN Frac(counts["T"], tot)
       ELSE IF up = "T" THEN Frac(counts["A"], tot)
       ELSE Zero

\* The conditioning label read off the upcard alone, whatever the peek rule.
_conditioning_any_peek(peek_mode, up) ==
    IF up \in {"A", "T"} THEN "no-dealer-BJ" ELSE "unconditioned"

_conditioning(peek_mode, up) ==
    IF peek_mode = "US" /\ up \in {"A", "T"} THEN "no-dealer-BJ" ELSE "unconditioned"

_add_to(t, s, r) ==
    LET v == IF r = "A" THEN 11
             ELSE IF r = "T" THEN 10
             ELSE CHOOSE i \in 2 .. 9 : RankSym[i - 1] = r
        t2 == t + v
        s2 == s \/ (r = "A")
    IN IF t2 > 21 /\ s2 THEN <<t2 - 10, FALSE>> ELSE <<t2, s2>>

\* for r in cards: t, s = _add_to(t, s, r)
RECURSIVE FoldCards(_, _)
FoldCards(ts, cards) ==
    IF cards = << >> THEN ts
    ELSE FoldCards(_add_to(ts[1], ts[2], Head(cards)), Tail(cards))

\* sorted(cards) == ["5", "6"]
IsFiveSix(cards) == cards \in {<<"5", "6">>, <<"6", "5">>}

IsPair(cards) == Len(cards) = 2 /\ cards[1] = cards[2]

\* EVs are in thousandths: the literals of the stub.
STUB_STAND == -50
STUB_HIT == 0
STUB_DOUBLE == 0
STUB_11V6_STAND == -120
STUB_11V6_HIT == 338
STUB_SPLIT_88V6 == 210
STUB_SPLIT == -50
SURRENDER_EV == -500

\* The dict of candidate actions with double entered whatever can_double says.
candidates_double_ungated(ev, can_double, can_split, can_surrender) ==
    [a \in {"stand", "hit", "double"}
           \cup (IF can_split /\ ev.split # None THEN {"split"} ELSE {})
           \cup (IF can_surrender THEN {"surrender"} ELSE {}) |->
        IF a = "stand" THEN ev.stand
        ELSE IF a = "hit" THEN ev.hit
        ELSE IF a = "double" THEN ev.double
        ELSE IF a = "split" THEN ev.split[1]
        ELSE SURRENDER_EV]

\* candidates: the dict of the eligible actions' EVs.
candidates(ev, can_double, can_split, can_surrender) ==
    [a \in {"stand", "hit"}
           \cup (IF can_double THEN {"double"} ELSE {})
           \cup (IF can_split /\ ev.split # None THEN {"split"} ELSE {})
           \cup (IF can_surrender THEN {"surrender"} ELSE {}) |->
        IF a = "stand" THEN ev.stand
        ELSE IF a = "hit" THEN ev.hit
        ELSE IF a = "double" THEN ev.double
        ELSE IF a = "split" THEN ev.split[1]
        ELSE SURRENDER_EV]

\* The insertion order of the candidates dict.
ActionOrder == <<"stand", "hit", "double", "split", "surrender">>

\* max(candidates, key=candidates.get): the first key, in insertion order,
\* whose value no other key's value exceeds.
best_of(cands) ==
    LET isMax(i) == /\ ActionOrder[i] \in DOMAIN cands
                    /\ \A b \in DOMAIN cands : cands[b] <= cands[ActionOrder[i]]
        first == CHOOSE i \in 1 .. 5 : isMax(i) /\ \A j \in 1 .. (i - 1) : ~isMax(j)
    IN ActionOrder[first]

\* What the rust core hands back for one EV call: a number, or << >> when the
\* call raises (or, for split_ev_per_stake, returns None).
RustEVs == {-1000, 1000}
RustOutcomes == {None} \cup {Some(x) : x \in RustEVs}

\* The EVs of a decision with the rust backend. The stand, hit and double
\* calls share one try block: the first that raises leaves the later EVs at
\* their stub defaults and skips the split call.
RustEvs(cards, can_double, can_split, out) ==
    LET okS == out.stand # None
        okH == okS /\ out.hit # None
        okD == okH /\ (can_double => out.double # None)
    IN [stand |-> IF okS THEN out.stand[1] ELSE STUB_STAND,
        hit |-> IF okH THEN out.hit[1] ELSE STUB_HIT,
        double |-> IF okH /\ can_double /\ out.double # None
                   THEN out.double[1] ELSE STUB_DOUBLE,
        split |-> IF okD /\ can_split /\ IsPair(cards) THEN out.split ELSE None]

\* The EVs of a decision with the stub backend.
StubEvs(cards, up, can_double, can_split) ==
    [stand |-> IF IsFiveSix(cards) /\ up = "6" THEN STUB_11V6_STAND ELSE STUB_STAND,
     hit |-> IF IsFiveSix(cards) /\ up = "6" THEN STUB_11V6_HIT ELSE STUB_HIT,
     double |-> IF IsFiveSix(cards) /\ up = "6" /\ can_double
                THEN STUB_11V6_HIT ELSE STUB_DOUBLE,
     split |-> IF can_split /\ IsPair(cards)
               THEN Some(IF cards[1] = "8" /\ up = "6" THEN STUB_SPLIT_88V6 ELSE STUB_SPLIT)
               ELSE None]

\* Game rules a game is started with (the fields app.py reads or echoes that
\* the claims are about).
Rules == [h17 : BOOLEAN, peek_rule : {"US", "EU"}, max_splits : {0, 3}]

\* The rules games are started with here: h17 only reaches the rust core,
\* whose answers are drawn freely, so one value of it is enough.
ReqRules == {r \in Rules : r.h17}

GameKeys == 1 .. MaxGames

\* The cards that decision requests name: hands over 5, 6 and 8 (the 11 of
\* the stub's special case, the pair 8,8, other pairs and non-pairs) against
\* an Ace, a six and a ten up.
ReqRanks == {"5", "6", "8"}
ReqUpcards == {"A", "6", "T"}

RECURSIVE SeqsOfLen(_, _)
SeqsOfLen(S, n) ==
    IF n = 0 THEN {<< >>}
    ELSE {Append(q, x) : q \in SeqsOfLen(S, n - 1), x \in S}

ReqHands == UNION {SeqsOfLen(ReqRanks, n) : n \in 1 .. MaxReqCards}

InitApp ==
    /\ hand = <<>>
    /\ total = 0
    /\ soft = FALSE
    /\ deck = EmptyDeck
    /\ call = NoCall
    /\ ret = "none"
    /\ USE_RUST_CORE \in BOOLEAN
    /\ HAVE_RUST \in {h \in BOOLEAN : h => USE_RUST_CORE}
    /\ STORE = <<>>
    /\ req = NoReq
    /\ resp = NoResp
    /\ applied = <<>>
    /\ _dp_cache = <<>>
    /\ sim = NoSim
    /\ lru_cache = <<>>
    /\ threads = <<>>

\* POST /v1/game/start: the key is the clock's reading, one no live game has.
game_start(g, num_decks, rules) ==
    /\ g \notin DOMAIN STORE
    /\ STORE' = [k \in DOMAIN STORE \cup {g} |->
                   IF k = g
                   THEN [game_key |-> g, num_decks |-> num_decks, rules |-> rules,
                         counts |-> _fresh_counts(num_decks),
                         initial |-> _remaining(_fresh_counts(num_decks))]
                   ELSE STORE[k]]
    /\ req' = [op |-> "game_start"]
    /\ resp' = [status |-> 200, game_key |-> g]
    /\ applied' = [k \in DOMAIN STORE \cup {g} |-> IF k = g THEN 0 ELSE applied[k]]
    /\ UNCHANGED <<USE_RUST_CORE, HAVE_RUST, handVars, exactVars, simVars>>

\* POST /v1/game/end
game_end(g) ==
    /\ STORE' = [k \in DOMAIN STORE \ {g} |-> STORE[k]]
    /\ req' = [op |-> "game_end", game_key |-> g]
    /\ resp' = [status |-> 200]
    /\ applied' = [k \in DOMAIN STORE \ {g} |-> applied[k]]
    /\ UNCHANGED <<USE_RUST_CORE, HAVE_RUST, handVars, exactVars, simVars>>

\* POST /v1/decision. out is what the rust core returns for this request.
\* (The handler's last except branch, its stand fallback, is not a step: every
\* call that can raise is inside the inner try blocks.)
decision(rq, out) ==
    /\ req' = rq
    /\ IF rq.game_key \notin DOMAIN STORE
       THEN resp' = [status |-> 404, error |-> "unknown_game_key"]
       ELSE LET st == STORE[rq.game_key]
                up == rq.dealer_up
                cards == rq.hand.cards
                can_double == rq.hand.can_double
                can_split == rq.hand.can_split
                can_surrender == rq.hand.can_surrender
                ts == FoldCards(<<0, FALSE>>, cards)
                peek_mode == st.rules.peek_rule
                rust == USE_RUST_CORE /\ HAVE_RUST
                ev == IF rust THEN RustEvs(cards, can_double, can_split, out)
                      ELSE StubEvs(cards, up, can_double, can_split)
                best == best_of(candidates(ev, can_double, can_split, can_surrender))
            IN resp' = [status |-> 200,
                        action |-> best,
                        evs |-> [stand |-> Some(ev.stand),
                                 hit |-> Some(ev.hit),
                                 double |-> IF can_double THEN Some(ev.double) ELSE None,
                                 split |-> IF can_split THEN ev.split ELSE None,
                                 surrender |-> IF can_surrender THEN Some(SURRENDER_EV)
                                               ELSE None],
                        meta |-> [peek_mode |-> peek_mode,
                                  conditioning |-> _conditioning(peek_mode, up),
                                  p_bj |-> _p_bj(st.counts, up),
                                  rules |-> st.rules,
                                  core |-> IF rust THEN "rust" ELSE "stub"]]
    /\ UNCHANGED <<STORE, applied, USE_RUST_CORE, HAVE_RUST, handVars, exactVars, simVars>>

DecisionRequests ==
    [op : {"decision"}, game_key : GameKeys, dealer_up : ReqUpcards,
     hand : [cards : ReqHands, can_double : BOOLEAN, can_split : BOOLEAN,
             can_surrender : BOOLEAN]]

\* The rust core is asked only what the request needs; what it is not asked
\* is left at None.
RustAnswers(rq) ==
    IF ~(USE_RUST_CORE /\ HAVE_RUST) \/ rq.game_key \notin DOMAIN STORE
    THEN {[stand |-> None, hit |-> None, double |-> None, split |-> None]}
    ELSE {o \in [stand : RustOutcomes, hit : RustOutcomes,
                 double : RustOutcomes, split : RustOutcomes] :
            /\ (o.stand = None => o.hit = None)
            /\ ((o.hit = None \/ ~rq.hand.can_double) => o.double = None)
            /\ ((o.hit = None \/ (rq.hand.can_double /\ o.double = None)
                   \/ ~rq.hand.can_split \/ ~IsPair(rq.hand.cards))
                => o.split = None)}

\* The response goes back to the client; requests are handled one at a time.
Reply ==
    /\ req.op # "none"
    /\ req' = NoReq
    /\ resp' = NoResp
    /\ UNCHANGED <<STORE, applied, USE_RUST_CORE, HAVE_RUST, handVars, exactVars, simVars>>

\* No request is being handled.
Idle == req.op = "none"

NextApp ==
    \/ Reply
    \/ Idle /\ \E g \in GameKeys, nd \in 1 .. MaxDecks, rules \in ReqRules :
                  game_start(g, nd, rules)
    \/ Idle /\ \E g \in GameKeys : game_end(g)
    \/ Idle /\ \E rq \in DecisionRequests : \E out \in RustAnswers(rq) :
                  decision(rq, out)

SpecApp == InitApp /\ [][NextApp]_vars

-----------------------------------------------------------------------------
(* src/src/app.py: counts application and the insurance query *)

MaxApplyCards == 2

\* The ranks the request names, each counted once.
need_distinct(cards) ==
    [r \in {cards[i] : i \in 1 .. Len(cards)} |-> 1]

\* need: how many cards of each rank the request names.
need(cards) ==
    [r \in {cards[i] : i \in 1 .. Len(cards)} |->
        Cardinality({i \in 1 .. Len(cards) : cards[i] = r})]

\* The counts left when every rank that has enough cards is decremented and
\* the short ones are skipped.
counts_after_partial(counts, nd) ==
    [r \in Rank |-> IF r \in DOMAIN nd /\ nd[r] <= counts[r]
                    THEN counts[r] - nd[r] ELSE counts[r]]

\* The counts the two loops of counts_apply leave: the first loop raises at a
\* rank with too few cards, before the second loop decrements anything.
counts_after(counts, nd) ==
    IF \E r \in DOMAIN nd : nd[r] > counts[r] THEN counts
    ELSE [r \in Rank |-> IF r \in DOMAIN nd THEN counts[r] - nd[r] ELSE counts[r]]

\* POST /v1/counts/apply. The request model (a non-empty list of Rank
\* symbols) is validated before the handler runs; a validation error is
\* answered 400 invalid_card_symbol.
counts_apply(rq) ==
    /\ req' = rq
    /\ IF rq.cards = << >> \/ \E i \in 1 .. Len(rq.cards) : rq.cards[i] \notin Rank
       THEN /\ resp' = [status |-> 400, error |-> "invalid_card_symbol"]
            /\ UNCHANGED <<STORE, applied>>
       ELSE IF rq.game_key \notin DOMAIN STORE
       THEN /\ resp' = [status |-> 404, error |-> "unknown_game_key"]
            /\ UNCHANGED <<STORE, applied>>
       ELSE LET g == rq.game_key
                st == STORE[g]
                nd == need(rq.cards)
                after == counts_after(st.counts, nd)
                rem == _remaining(after)
            IN /\ STORE' = [STORE EXCEPT ![g].counts = after]
               /\ IF \E r \in DOMAIN nd : nd[r] > st.counts[r]
                  THEN /\ resp' = [status |-> 409, error |-> "insufficient_cards"]
                       /\ UNCHANGED applied
                  ELSE /\ resp' = [status |-> 200, ok |-> TRUE, remaining_cards |-> rem,
                                   penetration |-> [remaining |-> rem,
                                                    initial |-> st.initial,
                                                    ratio |-> Frac(rem, st.initial)]]
                       /\ applied' = [applied EXCEPT ![g] = @ + Len(rq.cards)]
    /\ UNCHANGED <<USE_RUST_CORE, HAVE_RUST, handVars, exactVars, simVars>>

\* x / y for a positive y.
RDiv(x, y) == Norm(x[1] * y[2], x[2] * y[1])

\* "take" at the break-even probability as well as above it.
recommendation_at_break_even(pbj) ==
    IF RLeq(Frac(1, 3), pbj) THEN "take" ELSE "decline"

\* "take" if pbj > (1/3) else "decline"
recommendation(pbj) ==
    IF ~RLeq(pbj, Frac(1, 3)) THEN "take" ELSE "decline"

\* POST /v1/insurance, read from the raw JSON body: a missing game_key is
\* None, a missing dealer_up the empty string, a missing hand None.
insurance_raw(rq) ==
    /\ req' = rq
    /\ IF rq.game_key = None \/ rq.dealer_up = ""
       THEN resp' = [status |-> 400, error |-> "bad_request"]
       ELSE IF rq.dealer_up # "A"
       THEN resp' = [status |-> 400, error |-> "dealer_up_not_ace"]
       ELSE IF rq.game_key[1] \notin DOMAIN STORE
       THEN resp' = [status |-> 404, error |-> "unknown_game_key"]
       ELSE LET st == STORE[rq.game_key[1]]
                cards == IF rq.hand = None THEN << >> ELSE rq.hand[1]
                has_bj == {cards[i] : i \in 1 .. Len(cards)} = {"A", "T"}
                pbj == _p_bj(st.counts, "A")
                ev_per_orig == RSub(RMul(Frac(3, 2), pbj), Frac(1, 2))
                ev_per_ins == RDiv(ev_per_orig, Frac(1, 2))
            IN resp' = [status |-> 200,
                        recommendation |-> recommendation(pbj),
                        ev |-> [per_original |-> ev_per_orig,
                                per_insurance |-> ev_per_ins],
                        meta |-> [p_bj |-> pbj,
                                  break_even_p |-> Frac(1, 3),
                                  insurance_bet_fraction |-> Frac(1, 2),
                                  peek_mode |-> st.rules.peek_rule,
                                  even_money_equivalent |-> has_bj],
                        core |-> IF USE_RUST_CORE /\ HAVE_RUST THEN "rust" ELSE "stub"]
    /\ UNCHANGED <<STORE, applied, USE_RUST_CORE, HAVE_RUST, handVars, exactVars, simVars>>

\* The cards that apply requests name: Aces and fives, which a few applies
\* can exhaust, and a symbol that is not a rank.
ApplyRanks == {"A", "5"}
ApplySymbols == ApplyRanks \cup {"X"}

CountsApplyRequests ==
    [op : {"counts_apply"}, game_key : GameKeys,
     cards : UNION {SeqsOfLen(ApplySymbols, n) : n \in 0 .. MaxApplyCards}]

\* The hands that insurance queries name: the blackjack in both orders, a
\* lone Ace, a two-card hand that is not a blackjack, and a three-card hand
\* of Aces and a ten.
InsuranceHands == {<<"A", "T">>, <<"T", "A">>, <<"A">>, <<"A", "8">>, <<"A", "A", "T">>}

InsuranceRequests ==
    [op : {"insurance"}, game_key : {None} \cup {Some(g) : g \in GameKeys},
     dealer_up : {"", "A", "T"},
     hand : {None} \cup {Some(c) : c \in InsuranceHands}]

\* The client of this specification plays one game at a time: it starts a
\* game when none is live, and may name any key in its other requests.
NextCounts ==
    \/ Reply
    \/ Idle /\ STORE = << >> /\ \E g \in GameKeys, nd \in 1 .. MaxDecks, rules \in ReqRules :
                  game_start(g, nd, rules)
    \/ Idle /\ \E g \in GameKeys : game_end(g)
    \/ Idle /\ \E rq \in CountsApplyRequests : counts_apply(rq)
    \/ Idle /\ \E rq \in InsuranceRequests : insurance_raw(rq)

SpecCounts == InitApp /\ [][NextCounts]_vars

-----------------------------------------------------------------------------
(* src/src/sim_core.py: the simulator's evaluator.  Ranks are 1 (Ace) .. 10, *)
(* a deck is the tuple of ten counts, slot rank - 1.                        *)

MaxDepth == 1
MaxDpCalls == 2

SimRanks == 1 .. 10

\* An order that holds on a tie too.
RGreater_or_equal(x, y) == RLeq(y, x)

\* x > y
RGreater(x, y) == ~RLeq(x, y)

tuple_remove(d, rank) ==
    LET idx == rank - 1
    IN IF d[idx] > 0 THEN [d EXCEPT ![idx] = d[idx] - 1] ELSE d

RECURSIVE SumSeq(_)
SumSeq(cards) == IF cards = << >> THEN 0 ELSE Head(cards) + SumSeq(Tail(cards))

\* while aces > 0 and total + 10 <= 21: total += 10; is_soft = True; aces -= 1
RECURSIVE hand_value_loop(_, _, _)
hand_value_loop(t, aces, is_soft) ==
    IF aces > 0 /\ t + 10 <= 21 THEN hand_value_loop(t + 10, aces - 1, TRUE)
    ELSE <<t, is_soft>>

hand_value(cards) ==
    hand_value_loop(SumSeq(cards),
                    Cardinality({i \in 1 .. Len(cards) : cards[i] = 1}), FALSE)

\* str(total) and int(d_str) for the totals a dealer hand can end on.
NumStr == <<"1", "2", "3", "4", "5", "6", "7", "8", "9", "10", "11", "12", "13", "14",
            "15", "16", "17", "18", "19", "20", "21">>
str(t) == NumStr[t]
int(d_str) == CHOOSE t \in 1 .. Len(NumStr) : NumStr[t] = d_str

\* out[k] += p[r] * sub[r][k] over the ranks r of live: the dict the loops build.
MixPmf(live, p, sub) ==
    [k \in UNION {DOMAIN sub[r] : r \in live} |->
        RSum([r \in live |-> IF k \in DOMAIN sub[r] THEN RMul(p[r], sub[r][k]) ELSE Zero],
             live)]

RECURSIVE _dealer_pmf_from_total(_, _, _, _)
_dealer_pmf_from_total(t, s, d, h17) ==
    IF t > 21 THEN [k \in {"bust"} |-> One]
    ELSE IF t >= 17 /\ ~(s /\ t = 17 /\ h17) THEN [k \in {str(t)} |-> One]
    ELSE LET rem == deck_total(d)
             live == {r \in SimRanks : d[r - 1] > 0}
             nt(r) == t + r
             ns(r) == s \/ r = 1
             demote(r) == nt(r) > 21 /\ ns(r)
         IN IF rem = 0 THEN [k \in {str(t)} |-> One]
            ELSE MixPmf(live,
                        [r \in live |-> Frac(d[r - 1], rem)],
                        [r \in live |->
                            _dealer_pmf_from_total(IF demote(r) THEN nt(r) - 10 ELSE nt(r),
                                                   IF demote(r) THEN FALSE ELSE ns(r),
                                                   tuple_remove(d, r), h17)])

\* The body of _dealer_pmf_with_up_cached below its first line: the hole card
\* is drawn from deck_no_up under the constraint, then the dealer plays on.
hole_card_pmf(deck_no_up, up, h17, hole_constraint) ==
    LET allowed_hole_ranks ==
            {r \in SimRanks : /\ ~(hole_constraint = "NOT_TEN" /\ r = 10)
                              /\ ~(hole_constraint = "NOT_ACE" /\ r = 1)
                              /\ deck_no_up[r - 1] > 0}
        total_allowed_cards ==
            deck_total([i \in Ranks |-> IF i + 1 \in allowed_hole_ranks
                                        THEN deck_no_up[i] ELSE 0])
    IN IF total_allowed_cards = 0
       THEN [k \in {str(hand_value(<<up>>)[1])} |-> One]
       ELSE MixPmf(allowed_hole_ranks,
                   [hr \in allowed_hole_ranks |->
                       Frac(deck_no_up[hr - 1], total_allowed_cards)],
                   [hr \in allowed_hole_ranks |->
                       _dealer_pmf_from_total(hand_value(<<up, hr>>)[1],
                                              hand_value(<<up, hr>>)[2],
                                              tuple_remove(deck_no_up, hr), h17)])

_dealer_pmf_with_up_cached(d, up, h17, hole_constraint) ==
    hole_card_pmf(tuple_remove(d, up), up, h17, hole_constraint)

\* The loop of stand_ev over a dealer distribution.
stand_ev_of_pmf(player_total, pmf) ==
    LET keys == DOMAIN pmf \ {"bust"}
        idx == {int(k) : k \in keys}
        term == [dt \in idx |->
                    IF player_total > dt THEN pmf[str(dt)]
                    ELSE IF player_total < dt THEN RSub(Zero, pmf[str(dt)])
                    ELSE Zero]
    IN RAdd(IF "bust" \in DOMAIN pmf THEN pmf["bust"] ELSE Zero, RSum(term, idx))

\* sim_core.stand_ev
sim_stand_ev(player_total, up, d, rules, hole_constraint) ==
    stand_ev_of_pmf(player_total,
                    _dealer_pmf_with_up_cached(d, up, rules.dealer_hits_soft_17,
                                               hole_constraint))

one_step_ev(h, up, d, rules, hole_constraint) ==
    LET rem == deck_total(d)
        live == {r \in SimRanks : d[r - 1] > 0}
        term == [r \in live |->
                    LET p == Frac(d[r - 1], rem)
                        t == hand_value(Append(h, r))[1]
                    IN IF t > 21 THEN RSub(Zero, p)
                       ELSE RMul(p, sim_stand_ev(t, up, tuple_remove(d, r), rules,
                                                 hole_constraint))]
    IN IF rem = 0 THEN RSub(Zero, One) ELSE RSum(term, live)

\* tuple(sorted(hand))
RECURSIVE sorted(_)
sorted(h) ==
    IF h = << >> THEN << >>
    ELSE LET i == CHOOSE j \in 1 .. Len(h) : \A k \in 1 .. Len(h) : h[j] <= h[k]
         IN <<h[i]>> \o sorted(SubSeq(h, 1, i - 1) \o SubSeq(h, i + 1, Len(h)))

\* dp_decision reads and writes the module's _dp_cache: it is handed the
\* cache and returns its result with the cache it leaves.  dp_hit_loop is
\* the loop over the ranks 1..10 of the hit branch, from rank r on.
RECURSIVE dp_decision(_, _, _, _, _, _, _, _, _)
RECURSIVE dp_hit_loop(_, _, _, _, _, _, _, _, _, _)
dp_hit_loop(r, acc, cache, h, up, d, depth, hole_constraint, rules, disable_double) ==
    IF r > 10 THEN [acc |-> acc, cache |-> cache]
    ELSE IF d[r - 1] <= 0
    THEN dp_hit_loop(r + 1, acc, cache, h, up, d, depth, hole_constraint, rules,
                     disable_double)
    ELSE LET p == Frac(d[r - 1], deck_total(d))
             new_hand == Append(h, r)
             deck2 == tuple_remove(d, r)
             t == hand_value(new_hand)[1]
             sub == dp_decision(new_hand, up, deck2, FALSE, depth - 1, hole_constraint,
                                rules, disable_double, cache)
         IN IF t > 21
            THEN dp_hit_loop(r + 1, RSub(acc, p), cache, h, up, d, depth,
                             hole_constraint, rules, disable_double)
            ELSE IF depth > 0
            THEN dp_hit_loop(r + 1, RAdd(acc, RMul(p, sub.res[2])), sub.cache, h, up, d,
                             depth, hole_constraint, rules, disable_double)
            ELSE dp_hit_loop(r + 1,
                             RAdd(acc, RMul(p, sim_stand_ev(t, up, deck2, rules,
                                                            hole_constraint))),
                             cache, h, up, d, depth, hole_constraint, rules,
                             disable_double)

\* A decision that hits whenever the deck holds a card.
dp_decision_always_hit(h, up, d, can_double, depth, hole_constraint, rules, disable_double, cache) ==
    LET ev_s == sim_stand_ev(hand_value(h)[1], up, d, rules, hole_constraint)
        loop == dp_hit_loop(1, Zero, cache, h, up, d, depth, hole_constraint, rules,
                            disable_double)
    IN [res |-> IF deck_total(d) > 0 THEN <<"H", loop.acc>> ELSE <<"S", ev_s>>,
        cache |-> cache]

dp_decision(h, up, d, can_double, depth, hole_constraint, rules, disable_double, cache) ==
    LET state_key == <<sorted(h), up, d, can_double, depth, hole_constraint, disable_double>>
        ev_s == sim_stand_ev(hand_value(h)[1], up, d, rules, hole_constraint)
        loop == dp_hit_loop(1, Zero, cache, h, up, d, depth, hole_constraint, rules,
                            disable_double)
        hits == deck_total(d) > 0 /\ RGreater(loop.acc, ev_s)
        after_hit == IF hits THEN <<"H", loop.acc>> ELSE <<"S", ev_s>>
        cache1 == IF deck_total(d) > 0 THEN loop.cache ELSE cache
        ev_d == RMul(Frac(2, 1), one_step_ev(h, up, d, rules, hole_constraint))
        best == IF can_double /\ ~disable_double /\ RGreater(ev_d, after_hit[2])
                THEN <<"D", ev_d>> ELSE after_hit
    IN IF state_key \in DOMAIN cache
       THEN [res |-> cache[state_key], cache |-> cache]
       ELSE [res |-> best,
             cache |-> [k \in DOMAIN cache1 \cup {state_key} |->
                           IF k = state_key THEN best ELSE cache1[k]]]

\* The hole constraint play_hand passes with an upcard once the dealer has
\* no blackjack.
SimHoleConstraint(up) ==
    IF up = 1 THEN "NOT_TEN" ELSE IF up = 10 THEN "NOT_ACE" ELSE "None"

SimRules == [dealer_hits_soft_17 : BOOLEAN]

\* The totals stand_ev is asked about, the hands and the upcards dp_decision
\* is asked about.
SimTotals == {12, 17, 18, 21}
SimHands == {<<10, 7>>, <<5, 6>>}
SimUps == {1, 6}

CallTupleRemove(rank) ==
    /\ call.fn = "none"
    /\ call' = [fn |-> "tuple_remove", deck |-> deck, rank |-> rank]
    /\ ret' = tuple_remove(deck, rank)
    /\ UNCHANGED <<deck, handVars, appVars, simVars>>

CallSimStandEv(player_total, up, rules) ==
    /\ call.fn = "none"
    /\ call' = [fn |-> "sim_stand_ev", player_total |-> player_total, up |-> up,
                rules |-> rules, hole_constraint |-> SimHoleConstraint(up)]
    /\ ret' = sim_stand_ev(player_total, up, deck, rules, SimHoleConstraint(up))
    /\ UNCHANGED <<deck, handVars, appVars, simVars>>

\* A call of dp_decision on the current deck, as play_hand makes it
\* (can_double = len(hand) == 2); the cache outlives the call.
CallDpDecision(h, up, depth, rules) ==
    LET n == IF call.fn = "none" THEN 0 ELSE call.n
        can_double == Len(h) = 2
        out == dp_decision(h, up, deck, can_double, depth, SimHoleConstraint(up), rules,
                           FALSE, _dp_cache)
    IN /\ call.fn \in {"none", "dp_decision"}
       /\ n < MaxDpCalls
       /\ call' = [fn |-> "dp_decision", n |-> n + 1, hand |-> h, up |-> up,
                   can_double |-> can_double, depth |-> depth, rules |-> rules,
                   hole_constraint |-> SimHoleConstraint(up), disable_double |-> FALSE]
       /\ ret' = out.res
       /\ _dp_cache' = out.cache
       /\ UNCHANGED procVars
       /\ UNCHANGED <<deck, handVars, appVars>>

NextSim ==
    \/ \E rank \in SimRanks : CallTupleRemove(rank)
    \/ \E player_total \in SimTotals, up \in SimRanks, rules \in SimRules :
          CallSimStandEv(player_total, up, rules)
    \/ \E h \in SimHands, up \in SimUps, depth \in 0 .. MaxDepth, rules \in SimRules :
          CallDpDecision(h, up, depth, rules)

SpecSim == InitPmf /\ [][NextSim]_vars

-----------------------------------------------------------------------------
(* Claims about hand arithmetic and the dealer distribution *)

\* The blackjack value of a hand: every Ace 1, and one Ace raised to 11
\* when that does not exceed 21 (two Aces at 11 are already 22).
RECURSIVE LowTotal(_)
LowTotal(h) ==
    IF h = <<>> THEN 0
    ELSE (IF Head(h) = 0 THEN 1 ELSE RANK_VAL[Head(h)]) + LowTotal(Tail(h))

HasAce(h) == \E i \in 1 .. Len(h) : h[i] = 0

BlackjackTotal(h) ==
    IF HasAce(h) /\ LowTotal(h) + 10 <= 21
    THEN <<LowTotal(h) + 10, TRUE>>
    ELSE <<LowTotal(h), FALSE>>

\* The distribution when the peek constraint weights the hole card only:
\* the first draw uses the masked view, every later draw the full deck.
HoleCardOnlyPmf(t, s, d, h17, hole_c) ==
    IF t >= 17 /\ t > 21 THEN (22 :> One)
    ELSE IF t >= 17 /\ ~(h17 /\ s /\ t = 17) THEN (t :> One)
    ELSE LET view == apply_hole_constraint_view(d, hole_c)
             remaining == deck_total(view)
         IN IF remaining = 0
            THEN ((IF t <= 21 THEN t ELSE 22) :> One)
            ELSE LET drawn == {r \in Ranks : view[r] # 0}
                     child == [r \in drawn |->
                                 LET n == _add_rank(t, s, r)
                                 IN dealer_pmf(n[1], n[2], remove_card(d, r),
                                               h17, HC_NONE)]
                     keys == UNION {DOMAIN child[r] : r \in drawn}
                 IN [k \in keys |->
                       RSum([r \in drawn |->
                               IF k \in DOMAIN child[r]
                               THEN RMul(Frac(view[r], remaining), child[r][k])
                               ELSE Zero], drawn)]

\* C1: the probabilities returned by exact.dealer_pmf sum to exactly 1, for
\* every start state, deck, h17 value and peek constraint.
C1_PmfSumsToOne ==
    call.fn = "dealer_pmf" => RSum(ret, DOMAIN ret) = One

\* A masked call on a deck holding tens that draws and ends in several buckets.
C1_Witness ==
    /\ call.fn = "dealer_pmf"
    /\ call.hole_c = HC_NOT_TEN
    /\ deck[9] > 0
    /\ deck_total(deck) = MaxCards
    /\ Cardinality(DOMAIN ret) >= 2

\* C2: the peek constraint restricts only the dealer's first draw; every
\* later draw is weighted by the full unmasked remaining deck.
C2_PeekOnlyFirstDraw ==
    call.fn = "dealer_pmf" =>
        ret = HoleCardOnlyPmf(call.total, call.soft, deck, call.h17, call.hole_c)

\* C3: folding add_rank over a hand from (0, not soft) yields the hand's
\* blackjack total, and soft exactly when an Ace is still counted as 11.
C3_FoldIsBlackjackTotal ==
    <<total, soft>> = BlackjackTotal(hand)

\* C4: every outcome key of the dealer PMF is one of 17, 18, 19, 20, 21 or
\* BUST (22).
C4_SixBuckets ==
    call.fn = "dealer_pmf" => DOMAIN ret \subseteq {17, 18, 19, 20, 21, 22}

-----------------------------------------------------------------------------
(* Claims about the stand and hit expectations *)

MinusOne == <<-1, 1>>

\* The dealer distribution a call of stand_ev closes against.
DealerPmfOf(up, d, h17, hole_c) ==
    dealer_pmf(RANK_VAL[up], up = 0, d, h17, hole_c)

\* Stand EV as stated: push counted only for a standing total 17..21.
StatedStandEv(pt, P) ==
    LET win == RAdd(PmfGet(P, 22),
                    RSum(P, {t \in DOMAIN P :
                               17 <= t /\ t <= 21 /\ t < pt /\ pt <= 21}))
        push == IF 17 <= pt /\ pt <= 21 THEN PmfGet(P, pt) ELSE Zero
        lose == RSub(RSub(One, win), push)
    IN RSub(win, lose)

\* Hit EV as stated: a card taking the player above 21 contributes -1.
StatedHitEv(pt, ps, up, d, h17, hole_c) ==
    LET rem == SumUpTo(d, 9)
        drawn == {r \in Ranks : d[r] # 0}
        term == [r \in drawn |->
                   LET n == _add_rank(pt, ps, r)
                   IN RMul(Frac(d[r], rem),
                           IF n[1] > 21 THEN MinusOne
                           ELSE stand_ev(n[1], n[2], up, remove_card(d, r),
                                         h17, hole_c, One))]
    IN RSum(term, drawn)

\* C5: stand_ev equals win - lose with push = P[pt] only when 17 <= pt <= 21
\* and 0 for every other player total, for every player total 4..31.
C5_StandEvFormula ==
    call.fn = "stand_ev" =>
        ret = StatedStandEv(call.total, DealerPmfOf(call.up, deck, call.h17, call.hole_c))

\* C6: stand_ev with wager 1 returns a value in [-1, +1] for every player
\* total 4..31, upcard, deck, h17 value and peek constraint.
C6_StandEvBounded ==
    call.fn = "stand_ev" => (RLeq(MinusOne, ret) /\ RLeq(ret, One))

\* C7: for every player total pt in 12..20, stand_ev(pt + 1, ...) is at least
\* stand_ev(pt, ...) against the same upcard, deck, h17 and constraint.
C7_StandEvMonotone ==
    (call.fn = "stand_ev" /\ 12 <= call.total /\ call.total <= 20) =>
        RLeq(ret, stand_ev(call.total + 1, call.soft, call.up, deck,
                           call.h17, call.hole_c, One))

\* C8: in hit_then_stand_ev every next card that takes the player above 21
\* contributes exactly -1 times its probability, so the hit EV is in [-1, +1].
C8_BustCardCountsMinusOne ==
    (call.fn = "hit_then_stand_ev" /\ SumUpTo(deck, 9) > 0) =>
        /\ ret = StatedHitEv(call.total, call.soft, call.up, deck, call.h17, call.hole_c)
        /\ RLeq(MinusOne, ret)
        /\ RLeq(ret, One)

-----------------------------------------------------------------------------
(* Claims about the decision endpoint *)

Decided == req.op = "decision" /\ resp.status = 200

MaxOf(a, b) == IF a >= b THEN a ELSE b

\* C9: decision returns double whenever can_double is true and
\* EV_double >= max(EV_stand, EV_hit) + double_margin - eps, and neither split
\* nor surrender beats it; a tie between double and hit resolves to double.
\* (double_margin is at its default, zero; EVs are whole thousandths, so the
\* tie tolerance eps = 1e-9 adds no case.)
C9_DoubleWhenNotWorse ==
    (/\ Decided
     /\ req.hand.can_double
     /\ resp.evs.double[1] >= MaxOf(resp.evs.stand[1], resp.evs.hit[1])
     /\ (resp.evs.split # None => resp.evs.split[1] <= resp.evs.double[1])
     /\ (resp.evs.surrender # None => resp.evs.surrender[1] <= resp.evs.double[1]))
    => resp.action = "double"

\* C10: the returned action is eligible and has a non-null EV: double only
\* if can_double, split only if can_split and the hand is a pair, surrender
\* only if can_surrender; the evs entry of double, split or surrender is null
\* whenever its flag is false, and split is null for any non-pair hand.
C10_ActionEligible ==
    Decided =>
        /\ (resp.action = "double" => req.hand.can_double)
        /\ (resp.action = "split" => (req.hand.can_split /\ IsPair(req.hand.cards)))
        /\ (resp.action = "surrender" => req.hand.can_surrender)
        /\ resp.evs[resp.action] # None
        /\ (~req.hand.can_double => resp.evs.double = None)
        /\ (~req.hand.can_split => resp.evs.split = None)
        /\ (~req.hand.can_surrender => resp.evs.surrender = None)
        /\ (~IsPair(req.hand.cards) => resp.evs.split = None)

\* The rust backend answered, double was not allowed, and split was returned.
C10_Witness ==
    /\ Decided
    /\ resp.meta.core = "rust"
    /\ resp.action = "split"
    /\ ~req.hand.can_double
    /\ req.hand.can_surrender

-----------------------------------------------------------------------------
(* Claims about the decision metadata *)

\* C11: decision metadata reports conditioning = "no-dealer-BJ" exactly when
\* the game's peek_rule is US and dealer_up is A or T, and "unconditioned" in
\* every other case; these are exactly the cases in which the hole constraint
\* the adapter hands to the EV core is NOT_TEN (up A) or NOT_ACE (up T)
\* rather than NONE.
C11_ConditioningMatchesHoleConstraint ==
    /\ \A pm \in {"US", "EU"}, up \in Rank :
          /\ _conditioning(pm, up) =
                IF pm = "US" /\ up \in {"A", "T"} THEN "no-dealer-BJ" ELSE "unconditioned"
          /\ (_conditioning(pm, up) = "no-dealer-BJ") <=> (_hole_constraint(pm, up) # HC_NONE)
    /\ Decided =>
          LET pm == STORE[req.game_key].rules.peek_rule
              up == req.dealer_up
              hc == _hole_constraint(resp.meta.peek_mode, up)
          IN /\ resp.meta.peek_mode = pm
             /\ resp.meta.conditioning =
                   IF pm = "US" /\ up \in {"A", "T"} THEN "no-dealer-BJ" ELSE "unconditioned"
             /\ hc = IF resp.meta.conditioning = "unconditioned" THEN HC_NONE
                     ELSE IF up = "A" THEN HC_NOT_TEN ELSE HC_NOT_ACE

\* A US game answered by the rust backend against a ten up.
C11_Witness ==
    /\ Decided
    /\ resp.meta.core = "rust"
    /\ STORE[req.game_key].rules.peek_rule = "US"
    /\ req.dealer_up = "T"
    /\ resp.meta.conditioning = "no-dealer-BJ"

-----------------------------------------------------------------------------
(* Claims about counts application and insurance *)

Applying == req.op = "counts_apply"

\* C12: a counts apply request that fails leaves the game's counts unchanged:
\* an invalid rank symbol is answered with a client error (400) before any
\* count changes, and a request for more cards of some rank than remain is
\* answered with a conflict (409) with no rank decremented, even when other
\* ranks of the same request were available.
C12_FailedApplyChangesNothing ==
    [][(req'.op = "counts_apply" /\ req.op = "none") =>
          LET cards == req'.cards
              bad == cards = << >> \/ \E i \in 1 .. Len(cards) : cards[i] \notin Rank
              known == req'.game_key \in DOMAIN STORE
          IN /\ (bad => resp'.status = 400 /\ STORE' = STORE)
             /\ ((~bad /\ known /\ \E r \in DOMAIN need(cards) :
                                      need(cards)[r] > STORE[req'.game_key].counts[r])
                    => resp'.status = 409 /\ STORE' = STORE)
             /\ (resp'.status # 200 => STORE' = STORE)]_vars

\* An apply was refused as a conflict although one of its ranks had enough
\* cards left.
C12_Witness ==
    /\ Applying
    /\ resp.status = 409
    /\ \E r \in DOMAIN need(req.cards) :
          need(req.cards)[r] <= STORE[req.game_key].counts[r]

Insured == req.op = "insurance" /\ resp.status = 200

\* C14: for an insurance query with dealer_up = A and p = counts[T] /
\* remaining: ev.per_original = 1.5 p - 0.5, ev.per_insurance = 2 x
\* ev.per_original, break_even_p = 1/3, and the recommendation is take exactly
\* when p > 1/3 (3 counts[T] > remaining), decline otherwise; any dealer_up
\* other than A is rejected with dealer_up_not_ace.
C14_InsuranceFormulas ==
    /\ Insured =>
          LET counts == STORE[req.game_key[1]].counts
              rem == _remaining(counts)
              p == Frac(counts["T"], rem)
          IN /\ req.dealer_up = "A"
             /\ rem > 0
             /\ resp.meta.p_bj = p
             /\ resp.ev.per_original = RSub(RMul(Frac(3, 2), p), Frac(1, 2))
             /\ resp.ev.per_insurance = RMul(Frac(2, 1), resp.ev.per_original)
             /\ resp.meta.break_even_p = Frac(1, 3)
             /\ resp.recommendation \in {"take", "decline"}
             /\ (resp.recommendation = "take") <=> (3 * counts["T"] > rem)
    /\ (req.op = "insurance" /\ req.game_key # None /\ req.dealer_up \notin {"", "A"}) =>
          (resp.status = 400 /\ resp.error = "dealer_up_not_ace")

\* Insurance was asked of a shoe in which tens are exactly a third of the
\* remaining cards.
C14_Witness ==
    /\ Insured
    /\ 3 * STORE[req.game_key[1]].counts["T"] = _remaining(STORE[req.game_key[1]].counts)
    /\ resp.recommendation = "decline"

\* C15: the insurance response sets even_money_equivalent = true exactly when
\* the held hand is the two-card blackjack {A, T}; it is false for an absent
\* hand and for any hand of three or more cards, even one made only of Aces
\* and tens such as [A, A, T].
C15_EvenMoneyOnlyForTwoCardBlackjack ==
    Insured =>
        (resp.meta.even_money_equivalent
            <=> /\ req.hand # None
                /\ Len(req.hand[1]) = 2
                /\ {req.hand[1][1], req.hand[1][2]} = {"A", "T"})

-----------------------------------------------------------------------------
(* Claims about card removal *)

\* C16: deck.remove_card(v, r) fails with an error when v[r] = 0; otherwise
\* it returns a new vector whose slot r is v[r] - 1 and whose other nine
\* slots equal v's, and the input vector v is left unchanged.
C16_RemoveCardFailsOrDecrements ==
    call.fn = "remove_card" =>
        LET v == call.deck
            r == call.idx
        IN /\ deck = v
           /\ IF v[r] = 0 THEN ret = ValueError
              ELSE /\ ret # ValueError
                   /\ DOMAIN ret = Ranks
                   /\ ret[r] = v[r] - 1
                   /\ \A k \in Ranks \ {r} : ret[k] = v[k]

\* A removal from an empty slot of a deck that holds other cards.
C16_Witness ==
    /\ call.fn = "remove_card"
    /\ call.deck[call.idx] = 0
    /\ deck_total(call.deck) > 0
    /\ ret = ValueError

-----------------------------------------------------------------------------
(* Claims about the simulator's evaluator *)

\* C17: in the simulator core, removing a card of a rank whose slot is zero
\* fails loudly: tuple_remove never silently returns the deck unchanged.
C17_TupleRemoveFailsOnEmptySlot ==
    call.fn = "tuple_remove" =>
        /\ ret # call.deck
        /\ (call.deck[call.rank - 1] = 0 => ret = ValueError)

\* C18: the dealer distribution behind sim_core.stand_ev is computed over
\* exactly the post-deal deck the caller passes (the upcard already excluded
\* from it): no further card of the upcard's rank is removed before the hole
\* card is drawn.
C18_StandEvOverPassedDeck ==
    call.fn = "sim_stand_ev" =>
        ret = stand_ev_of_pmf(call.player_total,
                              hole_card_pmf(deck, call.up, call.rules.dealer_hits_soft_17,
                                            call.hole_constraint))

\* C19: the DP cache key of sim_core.dp_decision distinguishes every input
\* that can change the result, including the h17 rule: whatever earlier
\* calls left in the cache, a call returns what recomputation with its own
\* arguments (from an empty cache) returns.
C19_CacheHitEqualsRecomputation ==
    call.fn = "dp_decision" =>
        ret = dp_decision(call.hand, call.up, deck, call.can_double, call.depth,
                          call.hole_constraint, call.rules, call.disable_double,
                          << >>).res

-----------------------------------------------------------------------------
(* Claims about the split rule *)

\* C20: when the game's rules have max_splits = 0, decision never returns
\* the action split and never offers a split EV, whatever the hand and the
\* can_split flag.
C20_NoSplitWhenMaxSplitsZero ==
    (Decided /\ STORE[req.game_key].rules.max_splits = 0) =>
        /\ resp.action # "split"
        /\ resp.evs.split = None


-----------------------------------------------------------------------------
(* src/src/sim_core.py: BlackjackSimulator.play_hand, followed step by step *)

MaxSplits == 1

\* The ranks the draws are followed on (_draw_card can return any rank the
\* shoe still holds): the player's two cards, the upcard, every later card.
DealRanks == {1, 8}
UpRanks == {6, 10}
DrawRanks == {1, 10}

make_deck_tuple(num_decks) ==
    [i \in 0 .. 9 |-> IF i = 9 THEN 16 * num_decks ELSE 4 * num_decks]

\* The split gate with the cap on hands off by one.
get_basic_split_decision_one_more(cards, up, num_total_hands, max_splits) ==
    IF Len(cards) # 2 \/ cards[1] # cards[2] \/ (num_total_hands - 1) > max_splits
    THEN FALSE
    ELSE LET rank == cards[1]
         IN \/ rank \in {1, 8}
            \/ rank = 9 /\ up \notin {7, 10, 1}
            \/ rank = 7 /\ up <= 7
            \/ rank = 6 /\ up <= 6
            \/ rank \in {2, 3} /\ up <= 7

get_basic_split_decision(cards, up, num_total_hands, max_splits) ==
    IF Len(cards) # 2 \/ cards[1] # cards[2] \/ (num_total_hands - 1) >= max_splits
    THEN FALSE
    ELSE LET rank == cards[1]
         IN \/ rank \in {1, 8}
            \/ rank = 9 /\ up \notin {7, 10, 1}
            \/ rank = 7 /\ up <= 7
            \/ rank = 6 /\ up <= 6
            \/ rank \in {2, 3} /\ up <= 7

\* _draw_card(self) when random.randint picks a card of the given rank: the
\* shoe is rebuilt first when it is empty.
Reshuffled(s) ==
    IF deck_total(s.shoe) <= 0
    THEN [s EXCEPT !.shoe = make_deck_tuple(s.rules.num_decks), !.stats.reshuffles = @ + 1]
    ELSE s

CanDraw(s, rank) == Reshuffled(s).shoe[rank - 1] > 0

_draw_card(s, rank) == [Reshuffled(s) EXCEPT !.shoe = tuple_remove(@, rank)]

\* The answers dp_decision can give play_hand for a hand below 21 on a shoe
\* that still holds cards: S, H, and D when can_double and not disable_double.
\* Its EVs over a whole shoe are not evaluated here; play_hand is followed on
\* every answer.
dp_answers(can_double, disable_double) ==
    {"S", "H"} \cup (IF can_double /\ ~disable_double THEN {"D"} ELSE {})

\* BlackjackSimulator(rules, ..., disable_double, ...) after __init__, before
\* play_hand.  player_profit is kept in half units (blackjack_payout 1.5 is 3).
NoState == [hand |-> << >>, bet |-> 0, solver_deck |-> EmptyDeck]

BlackjackSimulator(rules, disable_double) ==
    [pc |-> "idle", rules |-> rules, disable_double |-> disable_double,
     shoe |-> make_deck_tuple(rules.num_decks),
     total_cards_initial |-> deck_total(make_deck_tuple(rules.num_decks)),
     stats |-> [hands_played |-> 0, reshuffles |-> 0, total_wagered |-> 0,
                player_profit |-> 0, player_wins |-> 0, player_losses |-> 0, pushes |-> 0,
                actions |-> [a \in {"S", "H", "D", "P"} |-> 0]],
     up_card |-> 0, hole_card |-> 0, hole_constraint |-> "None",
     hands_to_play |-> << >>, final_hands |-> << >>, state |-> NoState, hand |-> << >>,
     dealer_hand |-> << >>]

PlayRules ==
    [num_decks : {MaxDecks}, max_splits : 0 .. MaxSplits,
     no_hits_after_split_aces : BOOLEAN, dealer_hits_soft_17 : BOOLEAN,
     blackjack_payout : {3}, reshuffle_penetration : {<<1, 2>>}]

InitPlay ==
    /\ hand = <<>>
    /\ total = 0
    /\ soft = FALSE
    /\ deck = EmptyDeck
    /\ call = NoCall
    /\ ret = "none"
    /\ USE_RUST_CORE = FALSE
    /\ HAVE_RUST = FALSE
    /\ STORE = <<>>
    /\ req = NoReq
    /\ resp = NoResp
    /\ applied = <<>>
    /\ _dp_cache = <<>>
    /\ \E rules \in PlayRules, disable_double \in BOOLEAN :
          sim = BlackjackSimulator(rules, disable_double)
    /\ lru_cache = <<>>
    /\ threads = <<>>

playOther == <<handVars, exactVars, appVars, _dp_cache, lru_cache, threads>>

\* Lines 207-216: play_hand begins; the shoe is rebuilt when too little of it
\* is left.
PlayHand ==
    LET s0 == [sim EXCEPT !.stats.hands_played = @ + 1]
    IN /\ sim.pc = "idle"
       /\ sim' = IF RGreater(RSub(One, s0.rules.reshuffle_penetration),
                             Frac(deck_total(s0.shoe), s0.total_cards_initial))
                 THEN [s0 EXCEPT !.pc = "deal",
                                 !.shoe = make_deck_tuple(s0.rules.num_decks),
                                 !.stats.reshuffles = @ + 1]
                 ELSE [s0 EXCEPT !.pc = "deal"]
       /\ UNCHANGED playOther

\* Line 217: player_hand = (self._draw_card(), self._draw_card()), one draw
\* a step.
DealPlayer(c) ==
    /\ sim.pc = "deal"
    /\ CanDraw(sim, c)
    /\ sim' = [_draw_card(sim, c) EXCEPT !.hand = Append(@, c),
                                         !.pc = IF Len(sim.hand) = 1 THEN "up" ELSE "deal"]
    /\ UNCHANGED playOther

\* Lines 218-219: the upcard; solver_deck is the shoe as it is now.
DealUp(c) ==
    /\ sim.pc = "up"
    /\ CanDraw(sim, c)
    /\ sim' = [_draw_card(sim, c) EXCEPT
                  !.pc = "peek", !.up_card = c,
                  !.state = [hand |-> sim.hand, bet |-> 1,
                             solver_deck |-> _draw_card(sim, c).shoe]]
    /\ UNCHANGED playOther

\* Lines 221-239: the hole card under an Ace or a ten, the blackjacks, and
\* the queue of hands.
Peek(c) ==
    LET player_hand == sim.hand
        up_card == sim.up_card
        player_bj == hand_value(player_hand)[1] = 21
        peek == up_card \in {1, 10}
        s1 == IF peek THEN _draw_card(sim, c) ELSE sim
        hole_card == IF peek THEN c ELSE 0
        dealer_bj == peek /\ (\/ up_card = 1 /\ hole_card = 10
                              \/ up_card = 10 /\ hole_card = 1)
        hole_constraint == IF peek /\ ~dealer_bj
                           THEN (IF up_card = 1 THEN "NOT_TEN" ELSE "NOT_ACE")
                           ELSE "None"
        s2 == [s1 EXCEPT !.hole_card = hole_card, !.hole_constraint = hole_constraint,
                         !.hand = << >>, !.state = NoState]
    IN /\ sim.pc = "peek"
       /\ peek => CanDraw(sim, c)
       /\ sim' = IF player_bj \/ dealer_bj
                 THEN [s2 EXCEPT !.pc = "done",
                         !.stats.total_wagered = @ + 1,
                         !.stats.pushes = IF player_bj /\ dealer_bj THEN @ + 1 ELSE @,
                         !.stats.player_profit =
                             IF player_bj /\ dealer_bj THEN @
                             ELSE IF player_bj THEN @ + s2.rules.blackjack_payout
                             ELSE @ - 2,
                         !.stats.player_wins =
                             IF player_bj /\ ~dealer_bj THEN @ + 1 ELSE @,
                         !.stats.player_losses =
                             IF ~player_bj THEN @ + 1 ELSE @]
                 ELSE [s2 EXCEPT !.pc = "queue",
                         !.hands_to_play = <<[hand |-> player_hand, bet |-> 1,
                                              solver_deck |-> sim.state.solver_deck]>>,
                         !.final_hands = << >>]
       /\ UNCHANGED playOther

\* Lines 241-243: while hands_to_play: state = hands_to_play.pop(0).
PopHand ==
    /\ sim.pc = "queue"
    /\ sim.hands_to_play # << >>
    /\ sim' = [sim EXCEPT !.pc = "loop", !.state = Head(sim.hands_to_play),
                          !.hand = Head(sim.hands_to_play).hand,
                          !.hands_to_play = Tail(@)]
    /\ UNCHANGED playOther

can_split ==
    get_basic_split_decision(sim.hand, sim.up_card,
                             Len(sim.hands_to_play) + Len(sim.final_hands) + 1,
                             sim.rules.max_splits)

\* Lines 246-252 and 268: the top of the action loop when no split follows.
ActionLoop ==
    /\ sim.pc = "loop"
    /\ hand_value(sim.hand)[1] >= 21 \/ ~can_split
    /\ sim' = [sim EXCEPT !.pc = IF hand_value(sim.hand)[1] >= 21 THEN "after" ELSE "dp"]
    /\ UNCHANGED playOther

\* Lines 253-266: the split.
Split(c1, c2) ==
    LET s1 == _draw_card(sim, c1)
        s2 == _draw_card(s1, c2)
        split_card == sim.hand[1]
        deck_after_split == tuple_remove(tuple_remove(sim.state.solver_deck, c1), c2)
        first == [hand |-> <<split_card, c1>>, bet |-> 1, solver_deck |-> deck_after_split]
        second == [hand |-> <<split_card, c2>>, bet |-> 1, solver_deck |-> deck_after_split]
    IN /\ sim.pc = "loop"
       /\ hand_value(sim.hand)[1] < 21
       /\ can_split
       /\ CanDraw(sim, c1) /\ CanDraw(s1, c2)
       /\ sim' = [s2 EXCEPT !.pc = "after", !.stats.actions["P"] = @ + 1,
                            !.hands_to_play = <<first, second>> \o sim.hands_to_play,
                            !.hand = << >>]
       /\ UNCHANGED playOther

\* Lines 268-284: dp_decision's answer and what it does to the hand.
Decide(act, c) ==
    LET can_double == Len(sim.hand) = 2
        s1 == [sim EXCEPT !.stats.actions[act] = @ + 1]
        s2 == [_draw_card(s1, c) EXCEPT
                  !.hand = Append(@, c),
                  !.state.solver_deck = tuple_remove(@, c),
                  !.state.bet = IF act = "D" THEN 2 * @ ELSE @,
                  !.pc = IF act = "D" THEN "after" ELSE "loop"]
    IN /\ sim.pc = "dp"
       /\ act \in dp_answers(can_double, sim.disable_double)
       /\ act # "S" => CanDraw(s1, c)
       /\ sim' = IF act = "S" THEN [s1 EXCEPT !.pc = "after"] ELSE s2
       /\ UNCHANGED playOther

\* The end of a hand that goes on only from a hand that was not split.
FinishHand_not_after_split ==
    /\ sim.pc = "after"
    /\ sim.hand # << >>
    /\ sim' = [sim EXCEPT !.pc = "queue", !.state.hand = sim.hand,
                          !.final_hands = Append(@, [sim.state EXCEPT !.hand = sim.hand])]
    /\ UNCHANGED playOther

\* Lines 286-293: a hand that was not split joins final_hands; the test for
\* split Aces ends in pass.
FinishHand ==
    /\ sim.pc = "after"
    /\ sim' = IF sim.hand # << >>
              THEN [sim EXCEPT !.pc = "queue", !.state.hand = sim.hand,
                               !.final_hands =
                                   Append(@, [sim.state EXCEPT !.hand = sim.hand])]
              ELSE [sim EXCEPT !.pc = "queue"]
    /\ UNCHANGED playOther

\* Lines 295-297: the hole card is drawn now unless it was drawn at the deal.
DrawHole(c) ==
    LET s1 == IF sim.hole_card = 0 THEN [_draw_card(sim, c) EXCEPT !.hole_card = c] ELSE sim
    IN /\ sim.pc = "queue"
       /\ sim.hands_to_play = << >>
       /\ sim.hole_card = 0 => CanDraw(sim, c)
       /\ sim' = [s1 EXCEPT !.pc = "dealer", !.dealer_hand = <<s1.up_card, s1.hole_card>>]
       /\ UNCHANGED playOther

dealer_stops ==
    LET d_total == hand_value(sim.dealer_hand)[1]
        d_soft == hand_value(sim.dealer_hand)[2]
    IN d_total > 21 \/ (d_total >= 17
                        /\ ~(d_soft /\ d_total = 17 /\ sim.rules.dealer_hits_soft_17))

\* Lines 299-303: the dealer draws.
DealerDraw(c) ==
    /\ sim.pc = "dealer"
    /\ ~dealer_stops
    /\ CanDraw(sim, c)
    /\ sim' = [_draw_card(sim, c) EXCEPT !.dealer_hand = Append(@, c)]
    /\ UNCHANGED playOther

\* Lines 306-316: the settlement of final_hands against d_final.
RECURSIVE settle(_, _, _)
settle(stats, hands, d_final) ==
    IF hands = << >> THEN stats
    ELSE LET hand_state == Head(hands)
             p_final == hand_value(hand_state.hand)[1]
             st == [stats EXCEPT !.total_wagered = @ + hand_state.bet]
             lost == [st EXCEPT !.player_profit = @ - 2 * hand_state.bet,
                                !.player_losses = @ + 1]
             won == [st EXCEPT !.player_profit = @ + 2 * hand_state.bet,
                               !.player_wins = @ + 1]
         IN settle(IF p_final > 21 THEN lost
                   ELSE IF d_final > 21 \/ p_final > d_final THEN won
                   ELSE IF p_final < d_final THEN lost
                   ELSE [st EXCEPT !.pushes = @ + 1],
                   Tail(hands), d_final)

Settle ==
    /\ sim.pc = "dealer"
    /\ dealer_stops
    /\ sim' = [sim EXCEPT !.pc = "done",
                          !.stats = settle(@, sim.final_hands,
                                           hand_value(sim.dealer_hand)[1])]
    /\ UNCHANGED playOther

NextPlay ==
    \/ PlayHand
    \/ \E c \in DealRanks : DealPlayer(c)
    \/ \E c \in UpRanks : DealUp(c)
    \/ \E c \in DrawRanks : Peek(c)
    \/ PopHand
    \/ ActionLoop
    \/ \E c1 \in DrawRanks, c2 \in DrawRanks : Split(c1, c2)
    \/ \E act \in {"S", "H", "D"}, c \in DrawRanks : Decide(act, c)
    \/ FinishHand
    \/ \E c \in DrawRanks : DrawHole(c)
    \/ \E c \in DrawRanks : DealerDraw(c)
    \/ Settle

SpecPlay == InitPlay /\ [][NextPlay]_vars

\* play_hand runs on one thread from its first line to its return: a step
\* that can be taken is taken.
SpecPlayLive == SpecPlay /\ WF_vars(NextPlay)



-----------------------------------------------------------------------------
(* Claims about play_hand *)

\* C26: every run of play_hand reaches its return, whatever cards are drawn
\* and whatever the rules: the queue of hands empties, each action loop and
\* the dealer loop end.
C26_PlayHandTerminates == <>(sim.pc = "done")

\* C21: with no_hits_after_split_aces, a hand made by splitting Aces gets
\* exactly one card and takes no action: it is never hit or doubled, and it
\* ends with two cards at its single bet.  (A split was made and the hand
\* opens on an Ace: the hand was made by splitting Aces.)
C21_SplitAcesGetOneCard ==
    sim.rules.no_hits_after_split_aces =>
        \A i \in 1 .. Len(sim.final_hands) :
            (sim.stats.actions["P"] > 0 /\ sim.final_hands[i].hand[1] = 1)
                => (Len(sim.final_hands[i].hand) = 2 /\ sim.final_hands[i].bet = 1)

C26_Witness ==
    /\ sim.pc = "done"
    /\ sim.stats.actions["P"] > 0
    /\ sim.stats.actions["H"] > 0
    /\ Len(sim.dealer_hand) > 2

\* The hands of the player: the one being played, the queued, the finished.
HandsOfPlayer ==
    Len(sim.hands_to_play) + Len(sim.final_hands)
        + (IF sim.pc \in {"loop", "dp", "after"} /\ sim.hand # << >> THEN 1 ELSE 0)

\* C23: throughout play_hand the player never has more than max_splits + 1
\* hands, and with max_splits = 0 no split is made.
C23_HandsWithinMaxSplits ==
    /\ HandsOfPlayer <= sim.rules.max_splits + 1
    /\ sim.rules.max_splits = 0 => sim.stats.actions["P"] = 0

C23_Witness ==
    /\ sim.rules.max_splits >= 1
    /\ sim.stats.actions["P"] = sim.rules.max_splits
    /\ HandsOfPlayer = sim.rules.max_splits + 1
    /\ sim.pc = "loop"
    /\ sim.hand[1] = sim.hand[2]

\* C27: at every call of dp_decision from play_hand the solver deck is the
\* shoe plus the dealer's hole card when it was drawn: every card drawn so
\* far for any hand of the player is out of it.
C27_SolverDeckIsShoePlusHole ==
    sim.pc = "dp" =>
        sim.state.solver_deck =
            [i \in 0 .. 9 |->
                sim.shoe[i] + (IF sim.hole_card # 0 /\ i = sim.hole_card - 1 THEN 1 ELSE 0)]

-----------------------------------------------------------------------------
(* src/src/exact/dealer_pmf.py: _pmf_cached behind functools.lru_cache *)

MaxPmfCalls == 2

\* The stored keys a lookup of key matches: lru_cache compares the key tuple
\* (total, soft, deck, h17, hole_c) by equality.
lru_find_ignoring_soft(cache, key) ==
    {k \in DOMAIN cache : k[1] = key[1] /\ k[3] = key[3] /\ k[4] = key[4] /\ k[5] = key[5]}

lru_find(cache, key) == {k \in DOMAIN cache : k = key}

\* _pmf_cached(key) as the decorated function runs it: a stored key returns the
\* stored dict; any other key runs the body, whose recursive calls are
\* decorated calls too.
RECURSIVE lru_pmf_cached(_, _)
lru_pmf_cached(cache, key) ==
    LET t == key[1]
        s == key[2]
        d == key[3]
        h17 == key[4]
        hole_c == key[5]
        found == lru_find(cache, key)
    IN IF found # {} THEN cache[CHOOSE k \in found : TRUE]
       ELSE IF t >= 17 /\ t > 21 THEN (22 :> One)
       ELSE IF t >= 17 /\ ~(h17 /\ s /\ t = 17) THEN (t :> One)
       ELSE LET view == apply_hole_constraint_view(d, hole_c)
                remaining == deck_total(view)
            IN IF remaining = 0
               THEN ((IF t <= 21 THEN t ELSE 22) :> One)
               ELSE LET drawn == {r \in Ranks : view[r] # 0}
                        child == [r \in drawn |->
                                    LET n == _add_rank(t, s, r)
                                    IN lru_pmf_cached(cache,
                                           dealer_pmf_key(n[1], n[2], remove_card(d, r),
                                                          h17, hole_c))]
                        keys == UNION {DOMAIN child[r] : r \in drawn}
                    IN [k \in keys |->
                          RSum([r \in drawn |->
                                  IF k \in DOMAIN child[r]
                                  THEN RMul(Frac(view[r], remaining), child[r][k])
                                  ELSE Zero], drawn)]

\* The keys a decorated call stores: the key itself and every key its
\* recursion reaches without finding it stored.
RECURSIVE lru_misses(_, _)
lru_misses(cache, key) ==
    LET t == key[1]
        s == key[2]
        d == key[3]
        view == apply_hole_constraint_view(d, key[5])
    IN IF lru_find(cache, key) # {} THEN {}
       ELSE IF t >= 17 /\ ~(key[4] /\ s /\ t = 17) THEN {key}
       ELSE {key} \cup
            UNION {lru_misses(cache,
                       LET n == _add_rank(t, s, r)
                       IN dealer_pmf_key(n[1], n[2], remove_card(d, r), key[4], key[5])) :
                   r \in {x \in Ranks : view[x] # 0}}

\* The decks and the dealer starts the cached calls are followed on.
CacheDecks == {d \in Decks : \A r \in Ranks \ {0, 9} : d[r] = 0}
CacheStarts == {<<16, FALSE>>, <<17, TRUE>>, <<17, FALSE>>}

InitCache == InitPmf /\ deck \in CacheDecks

\* dealer_pmf(start_total, start_soft, deck, h17, hole_constraint) on the
\* cache as it is; hit records whether the key itself was stored.
CallDealerPmfCached(st, h17, hole_c) ==
    LET n == IF call.fn = "none" THEN 0 ELSE call.n
        key == dealer_pmf_key(st[1], st[2], deck, h17, hole_c)
        stored == lru_misses(lru_cache, key)
    IN /\ n < MaxPmfCalls
       /\ call' = [fn |-> "dealer_pmf", n |-> n + 1, total |-> st[1], soft |-> st[2],
                   h17 |-> h17, hole_c |-> hole_c, hit |-> lru_find(lru_cache, key) # {},
                   warm |-> lru_cache # << >>]
       /\ ret' = lru_pmf_cached(lru_cache, key)
       /\ lru_cache' = [k \in DOMAIN lru_cache \cup stored |->
                           IF k \in DOMAIN lru_cache THEN lru_cache[k]
                           ELSE lru_pmf_cached(lru_cache, k)]
       /\ UNCHANGED <<deck, handVars, appVars, _dp_cache, sim, threads>>

\* _pmf_cached.cache_clear()
cache_clear ==
    /\ lru_cache # << >>
    /\ lru_cache' = << >>
    /\ UNCHANGED <<exactVars, handVars, appVars, _dp_cache, sim, threads>>

\* An eviction: the cache drops the entry its LRU order picks, which can be
\* any stored one.
Evict(key) ==
    /\ key \in DOMAIN lru_cache
    /\ lru_cache' = [k \in DOMAIN lru_cache \ {key} |-> lru_cache[k]]
    /\ UNCHANGED <<exactVars, handVars, appVars, _dp_cache, sim, threads>>

NextCache ==
    \/ \E st \in CacheStarts, h17 \in BOOLEAN, hole_c \in HoleConstraints :
          CallDealerPmfCached(st, h17, hole_c)
    \/ cache_clear
    \/ \E key \in DOMAIN lru_cache : Evict(key)

SpecCache == InitCache /\ [][NextCache]_vars

\* C22: exact.dealer_pmf is deterministic and independent of the cache: on an
\* empty, a warm or a partly evicted cache a call returns the distribution the
\* undecorated computation gives for its arguments.
C22_DealerPmfIndependentOfCache ==
    call.fn = "dealer_pmf" =>
        ret = dealer_pmf(call.total, call.soft, deck, call.h17, call.hole_c)

C22_Witness ==
    /\ call.fn = "dealer_pmf"
    /\ call.hit
    /\ call.n = MaxPmfCalls
    /\ Cardinality(DOMAIN ret) > 1

-----------------------------------------------------------------------------
(* Single calls of sim_core's dp_decision and _dealer_pmf_from_total, each on
   caches as the import leaves them *)

\* The decks and the dealer totals the calls are followed on.
CallDecks == {d \in Decks : \A r \in Ranks \ {0, 4, 9} : d[r] = 0}
CallTotals == {6, 16}

InitCall == InitPmf /\ deck \in CallDecks

CallDp(h, up, can_double, depth, rules, disable_double) ==
    LET out == dp_decision(h, up, deck, can_double, depth, SimHoleConstraint(up), rules,
                           disable_double, _dp_cache)
    IN /\ call.fn = "none"
       /\ call' = [fn |-> "dp_decision", hand |-> h, up |-> up, can_double |-> can_double,
                   depth |-> depth, rules |-> rules,
                   hole_constraint |-> SimHoleConstraint(up),
                   disable_double |-> disable_double]
       /\ ret' = out.res
       /\ _dp_cache' = out.cache
       /\ UNCHANGED <<deck, handVars, appVars, procVars>>

CallDealerPmfFromTotal(t, s, h17) ==
    /\ call.fn = "none"
    /\ call' = [fn |-> "_dealer_pmf_from_total", total |-> t, soft |-> s, h17 |-> h17]
    /\ ret' = _dealer_pmf_from_total(t, s, deck, h17)
    /\ UNCHANGED <<deck, handVars, appVars, simVars>>

NextCall ==
    \/ \E h \in SimHands, up \in SimUps, can_double \in BOOLEAN, depth \in 0 .. MaxDepth,
          rules \in SimRules, disable_double \in BOOLEAN :
          CallDp(h, up, can_double, depth, rules, disable_double)
    \/ \E t \in CallTotals, h17 \in BOOLEAN : CallDealerPmfFromTotal(t, FALSE, h17)

SpecCall == InitCall /\ [][NextCall]_vars

-----------------------------------------------------------------------------
(* Claims about sim_core's dp_decision and dealer totals *)

\* The three EVs dp_decision weighs for the call made, on an empty cache.
DpStand ==
    sim_stand_ev(hand_value(call.hand)[1], call.up, deck, call.rules, call.hole_constraint)
DpHit ==
    dp_hit_loop(1, Zero, << >>, call.hand, call.up, deck, call.depth, call.hole_constraint,
                call.rules, call.disable_double).acc
DpDouble ==
    RMul(Frac(2, 1), one_step_ev(call.hand, call.up, deck, call.rules, call.hole_constraint))
DpMayDouble == call.can_double /\ ~call.disable_double

C25_AceCountsElevenWhenItFits ==
    (/\ call.fn = "_dealer_pmf_from_total"
     /\ deck[0] > 0
     /\ call.total = 6 => ~call.h17)
        => /\ "17" \in DOMAIN ret
           /\ RLeq(Frac(deck[0], deck_total(deck)), ret["17"])

-----------------------------------------------------------------------------
(* src/src/app.py: counts_apply on the workers of the server's thread pool
   (a handler declared with def runs on a worker thread), statement by
   statement *)

MaxThreads == 2

Threads == 1 .. MaxThreads

\* need.items(): the ranks in the order the request first names them, each
\* with its number of cards.
need_items(cards) ==
    LET firsts == {i \in 1 .. Len(cards) : \A j \in 1 .. i - 1 : cards[j] # cards[i]}
    IN [k \in 1 .. Cardinality(firsts) |->
          LET i == CHOOSE x \in firsts : Cardinality({j \in firsts : j < x}) = k - 1
          IN <<cards[i], need(cards)[cards[i]]>>]

\* One game, started with one deck, from which earlier requests took all but
\* a of the Aces and all but f of the fives; no worker has a request yet.
InitRace ==
    /\ hand = <<>>
    /\ total = 0
    /\ soft = FALSE
    /\ deck = EmptyDeck
    /\ call = NoCall
    /\ ret = "none"
    /\ USE_RUST_CORE = FALSE
    /\ HAVE_RUST = FALSE
    /\ \E a \in 0 .. 2, f \in 0 .. 2, rules \in ReqRules :
          STORE = [g \in {1} |->
                     [game_key |-> g, num_decks |-> 1, rules |-> rules,
                      counts |-> counts_after(_fresh_counts(1),
                                              [r \in {"A", "5"} |->
                                                  IF r = "A" THEN 4 - a ELSE 4 - f]),
                      initial |-> _remaining(_fresh_counts(1))]]
    /\ req = NoReq
    /\ resp = NoResp
    /\ applied = <<>>
    /\ _dp_cache = <<>>
    /\ sim = NoSim
    /\ lru_cache = <<>>
    /\ threads = [t \in Threads |-> [pc |-> "idle", items |-> << >>, i |-> 0, have |-> 0,
                                     status |-> 0]]

raceOther ==
    <<handVars, exactVars, USE_RUST_CORE, HAVE_RUST, req, resp, applied, _dp_cache, sim,
      lru_cache>>

\* Lines 160-163: the game is looked up and need is built.
Handle(t, cards) ==
    /\ threads[t].pc = "idle"
    /\ threads' = [threads EXCEPT ![t] = [@ EXCEPT !.pc = "check",
                                                   !.items = need_items(cards), !.i = 1]]
    /\ UNCHANGED <<STORE, raceOther>>

\* Lines 164-167: one pass of the checking loop, or its end.
Check(t) ==
    LET th == threads[t]
        r == th.items[th.i][1]
        n == th.items[th.i][2]
        have == STORE[1].counts[r]
    IN /\ th.pc = "check"
       /\ threads' = [threads EXCEPT ![t] =
                         IF th.i > Len(th.items) THEN [th EXCEPT !.pc = "load", !.i = 1]
                         ELSE IF n > have THEN [th EXCEPT !.pc = "done", !.status = 409]
                         ELSE [th EXCEPT !.i = @ + 1]]
       /\ UNCHANGED <<STORE, raceOther>>

\* Line 168, st.counts[r] -= n: the count is read, or the loop ends and the
\* response of lines 169-174 is built.
Load(t) ==
    LET th == threads[t]
    IN /\ th.pc = "load"
       /\ threads' = [threads EXCEPT ![t] =
                         IF th.i > Len(th.items) THEN [th EXCEPT !.pc = "done", !.status = 200]
                         ELSE [th EXCEPT !.pc = "store",
                                         !.have = STORE[1].counts[th.items[th.i][1]]]]
       /\ UNCHANGED <<STORE, raceOther>>

\* Line 168, st.counts[r] -= n: the count read, less n, is written back.
Store(t) ==
    LET th == threads[t]
    IN /\ th.pc = "store"
       /\ STORE' = [STORE EXCEPT ![1].counts[th.items[th.i][1]] = th.have - th.items[th.i][2]]
       /\ threads' = [threads EXCEPT ![t] = [th EXCEPT !.pc = "load", !.i = @ + 1]]
       /\ UNCHANGED raceOther

NextRace ==
    \E t \in Threads :
        \/ \E cards \in UNION {SeqsOfLen(ApplyRanks, n) : n \in 1 .. MaxApplyCards} :
              Handle(t, cards)
        \/ Check(t)
        \/ Load(t)
        \/ Store(t)

SpecRace == InitRace /\ [][NextRace]_vars

-----------------------------------------------------------------------------
(* Claims about concurrent requests *)

\* C28: with two counts_apply requests for one game running at once, no
\* interleaving of their check and decrement steps takes a count below zero.
C28_ConcurrentAppliesKeepCountsNonNegative ==
    \A g \in DOMAIN STORE : \A r \in Rank : STORE[g].counts[r] >= 0

-----------------------------------------------------------------------------
(* src/unit_harness.py: choose_action.  The EVs come from the rustcore
   extension, which is not part of this repository's Python: they are inputs,
   written in units of half of TIE_EPS's default 1e-9, so TIE_EPS is 2. *)

TIE_EPS == 2

\* The EVs the calls are followed on, and the settings read from the
\* environment at import (UNIT_DOUBLE_MARGIN, UNIT_PREFER_DOUBLE_ON_TIE,
\* UNIT_DOUBLE_ON_9TO11_ONLY, UNIT_USE_DP_HIT).
HarnessEvs == -3 .. 3
HarnessSettings ==
    [DOUBLE_MARGIN : {0, 3}, PREFER_DOUBLE_ON_TIE : BOOLEAN,
     DOUBLE_ON_9TO11_ONLY : BOOLEAN, USE_DP_HIT : BOOLEAN]

\* choose_action(sim, pt, ...) with ev_s, ev_h and ev_d as lines 102-104 got
\* them; it returns the action and the three EVs.
choose_action(pt, ev_s, ev_h, ev_d, env) ==
    LET best_alt == IF ev_s >= ev_h THEN ev_s ELSE ev_h
        allow_double == IF env.DOUBLE_ON_9TO11_ONLY THEN pt \in {9, 10, 11} ELSE TRUE
        action ==
            IF allow_double
               /\ (\/ ev_d > best_alt + env.DOUBLE_MARGIN
                   \/ (/\ env.PREFER_DOUBLE_ON_TIE
                       /\ Abs(ev_d - best_alt) <= TIE_EPS
                       /\ ev_d >= best_alt))
            THEN "double"
            ELSE IF ev_h > ev_s + TIE_EPS THEN "hit"
            ELSE "stand"
    IN <<action, [stand |-> ev_s, hit |-> ev_h, double |-> ev_d]>>

\* A call of choose_action: with USE_DP_HIT the hit EV is dp_hit_best_ev's,
\* a maximum with the stand EV, so it is never below it.
CallChooseAction(pt, ev_s, ev_h, ev_d, env) ==
    /\ call.fn = "none"
    /\ env.USE_DP_HIT => ev_h >= ev_s
    /\ call' = [fn |-> "choose_action", pt |-> pt, env |-> env]
    /\ ret' = choose_action(pt, ev_s, ev_h, ev_d, env)
    /\ UNCHANGED <<deck, handVars, appVars, simVars>>

NextChoose ==
    \E pt \in {11, 12}, ev_s \in HarnessEvs, ev_h \in HarnessEvs, ev_d \in HarnessEvs,
       env \in HarnessSettings :
        CallChooseAction(pt, ev_s, ev_h, ev_d, env)

SpecChoose == InitHand /\ [][NextChoose]_vars

\* C30: choose_action picks double exactly when doubling is allowed and
\* ev_double >= max(ev_stand, ev_hit) + DOUBLE_MARGIN - TIE_EPS; otherwise it
\* picks hit exactly when ev_hit > ev_stand + TIE_EPS, and stand if not.
C30_ChooseActionPolicy ==
    call.fn = "choose_action" =>
        LET evs == ret[2]
            allowed == call.env.DOUBLE_ON_9TO11_ONLY => call.pt \in {9, 10, 11}
        IN ret[1] = IF allowed /\ evs.double >= MaxOf(evs.stand, evs.hit)
                                                  + call.env.DOUBLE_MARGIN - TIE_EPS
                    THEN "double"
                    ELSE IF evs.hit > evs.stand + TIE_EPS THEN "hit"
                    ELSE "stand"

====
